---- MODULE Spec2Model ----
(***************************************************************************)
(* Model of bot.py: a rule-archive ingestion and search bot.               *)
(*                                                                         *)
(* Text is modelled as sequences of one-character strings, so that         *)
(* splitting, stripping, case folding and matching are computed as the     *)
(* code computes them.  Python dicts are insertion-ordered and are         *)
(* modelled as sequences of key/value records with unique keys.            *)
(*                                                                         *)
(* Scheduling: one asyncio event loop.  A step of the model is the code    *)
(* that runs between two await points.  The periodic task runs beside the  *)
(* command handlers; the handlers themselves are processed one update at   *)
(* a time.  The global dict url_contents is modelled by its value: no      *)
(* other name refers to that dict across an await (a scan reads it and     *)
(* builds new lists in one step), so identity and value cannot be told     *)
(* apart by any task.                                                      *)
(*                                                                         *)
(* Left out: recent_user_ids (bookkeeping of the command-logging           *)
(* decorator, read only for the user list of /info), /start, /help and     *)
(* /sysinf (they read and write nothing of the store) and /killnow (it     *)
(* ends the process).  The clock moves only to the time the next sleep is  *)
(* due.                                                                    *)
(*                                                                         *)
(* Seven specifications: Spec (the running bot), SpecFetch (its refresh    *)
(* cycles alone, under the fairness of the event loop), SpecTimer (the     *)
(* first load and the periodic task over several hours), SpecPaginate      *)
(* (split_message applied to bounded inputs), SpecSearch (the two scans    *)
(* applied to bounded corpora and queries), SpecParse (the member loop of  *)
(* download_and_parse_archive applied to bounded archives) and SpecReaders *)
(* (the reading handlers alone, with every kind of argument list).         *)
(***************************************************************************)
EXTENDS Integers, Sequences, FiniteSets, TLC

\* ------------------------------------------------------------------------
\* Program constants
\* ------------------------------------------------------------------------
MAX_RETRIES == 5
RETRY_INTERVAL == 5
MAX_MESSAGE_LENGTH == 4096
MAX_MESSAGES == 3
UPDATE_INTERVAL == 3600
NOTICE_LENGTH == 24

\* Python's None for the two timestamps (times are naturals).
None == -1

\* ------------------------------------------------------------------------
\* Bounds of the exploration
\* ------------------------------------------------------------------------
MaxTime == 3700
MaxFailingCycles == 1
MaxParts == 4
MaxLines == 2
MaxTicks == 2
MaxFiles == 2

\* ------------------------------------------------------------------------
\* State
\* ------------------------------------------------------------------------
VARIABLES
  now,                \* the clock read by datetime.now() and by the sleeps
  phase,              \* "startup", "running" or "exited"
  url_contents,       \* the global dict (no other name ever refers to it)
  initial_load_time,
  last_update_time,
  pc,                 \* per task: where it is suspended
  retries,            \* per task: retries of download_archive
  archive_data,       \* per task: index in Bodies of the downloaded data, 0 if none
  wake,               \* per task: when its asyncio.sleep ends
  attempts,           \* per task: requests made by the current download_archive
  waits,              \* per task: retry sleeps of the current download_archive
  outcome,            \* per task: how its last cycle ended
  cycle_start,        \* per task: the store when its cycle began, and whether
                      \* another task has published since
  ingested,           \* has any cycle published yet
  failures,           \* number of cycles in which a request has failed
  update,             \* the update being handled: command, context.args, has it a
                      \* message, and for /fetchnow the id of its user
  result,             \* the Outcome of the handler
  stats,              \* what the last /info read
  view,               \* the dict the scan of the update read
  to_send,            \* reply_text calls still to make for the update
  sent,               \* reply_text calls made for the update
  call                \* a function applied on its own: its argument and result

\* ------------------------------------------------------------------------
\* Text helpers (str methods used by the code)
\* ------------------------------------------------------------------------
Upper ==
  <<"A", "B", "C", "D", "E", "F", "G", "H", "I", "J", "K", "L", "M",
    "N", "O", "P", "Q", "R", "S", "T", "U", "V", "W", "X", "Y", "Z">>
LowerOf ==
  <<"a", "b", "c", "d", "e", "f", "g", "h", "i", "j", "k", "l", "m",
    "n", "o", "p", "q", "r", "s", "t", "u", "v", "w", "x", "y", "z">>

LowerChar(c) ==
  IF \E i \in 1..Len(Upper) : Upper[i] = c
  THEN LowerOf[CHOOSE i \in 1..Len(Upper) : Upper[i] = c]
  ELSE c

\* str.lower()
Lower(s) == [i \in 1..Len(s) |-> LowerChar(s[i])]

IsSpace(c) == c \in {" ", "\t", "\n"}

RECURSIVE LStrip(_)
LStrip(s) ==
  IF s = <<>> THEN <<>>
  ELSE IF IsSpace(Head(s)) THEN LStrip(Tail(s)) ELSE s

RECURSIVE RStrip(_)
RStrip(s) ==
  IF s = <<>> THEN <<>>
  ELSE IF IsSpace(s[Len(s)]) THEN RStrip(SubSeq(s, 1, Len(s) - 1)) ELSE s

\* str.strip()
Strip(s) == RStrip(LStrip(s))

\* index of the first occurrence of character c in s, 0 when absent
FirstIndex(s, c) ==
  IF \E i \in 1..Len(s) : s[i] = c
  THEN CHOOSE i \in 1..Len(s) : s[i] = c /\ \A j \in 1..(i - 1) : s[j] # c
  ELSE 0

\* str.splitlines(): no trailing empty line, "" has no lines
RECURSIVE SplitLines(_)
SplitLines(s) ==
  IF s = <<>> THEN <<>>
  ELSE LET i == FirstIndex(s, "\n")
       IN IF i = 0 THEN <<s>>
          ELSE <<SubSeq(s, 1, i - 1)>> \o SplitLines(SubSeq(s, i + 1, Len(s)))

\* str.split(sep) for a one-character separator: always at least one part
RECURSIVE Split(_, _)
Split(s, sep) ==
  LET i == FirstIndex(s, sep)
  IN IF i = 0 THEN <<s>>
     ELSE <<SubSeq(s, 1, i - 1)>> \o Split(SubSeq(s, i + 1, Len(s)), sep)

\* '\n'.join(lines)
RECURSIVE JoinLines(_)
JoinLines(lines) ==
  IF lines = <<>> THEN <<>>
  ELSE IF Len(lines) = 1 THEN lines[1]
  ELSE lines[1] \o <<"\n">> \o JoinLines(Tail(lines))

\* ' '.join(args)
RECURSIVE JoinArgs(_)
JoinArgs(args) ==
  IF args = <<>> THEN <<>>
  ELSE IF Len(args) = 1 THEN args[1]
  ELSE args[1] \o <<" ">> \o JoinArgs(Tail(args))

\* needle in hay
Contains(hay, needle) ==
  \E i \in 1..(Len(hay) - Len(needle) + 1) :
     SubSeq(hay, i, i + Len(needle) - 1) = needle

\* bytes.decode('utf-8', errors='ignore'): undecodable bytes are dropped
BADBYTE == "\\xff"
RECURSIVE Decode(_)
Decode(bytes) ==
  IF bytes = <<>> THEN <<>>
  ELSE IF Head(bytes) = BADBYTE THEN Decode(Tail(bytes))
  ELSE <<Head(bytes)>> \o Decode(Tail(bytes))

\* ------------------------------------------------------------------------
\* dict helpers: a dict is a sequence of [k, v] records with unique keys
\* ------------------------------------------------------------------------
HasKey(d, k) == \E i \in 1..Len(d) : d[i].k = k

KeyIndex(d, k) == CHOOSE i \in 1..Len(d) : d[i].k = k

\* d.get(k, default)
DictGet(d, k, default) == IF HasKey(d, k) THEN d[KeyIndex(d, k)].v ELSE default

\* d.setdefault(k, v): an existing key keeps its value
DictSetDefault(d, k, v) == IF HasKey(d, k) THEN d ELSE Append(d, [k |-> k, v |-> v])

\* d[k] = v : an existing key keeps its position
DictSet(d, k, v) ==
  IF HasKey(d, k)
  THEN [d EXCEPT ![KeyIndex(d, k)] = [k |-> k, v |-> v]]
  ELSE Append(d, [k |-> k, v |-> v])

Keys(d) == {d[i].k : i \in 1..Len(d)}

\* the dict after d.setdefault(k, {}): a missing key is inserted
GetInserting(d, k) == IF HasKey(d, k) THEN d ELSE Append(d, [k |-> k, v |-> <<>>])

\* the dict after d.get(k, {}): the default is returned, nothing is inserted
AfterGet(d, k) == d

\* the dict after d.get(k, {}) for each of keys in turn
RECURSIVE AfterGets(_, _, _)
AfterGets(d, keys, i) ==
  IF i > Len(keys) THEN d ELSE AfterGets(AfterGet(d, keys[i]), keys, i + 1)

\* ------------------------------------------------------------------------
\* Category names
\* ------------------------------------------------------------------------
CONTENT == <<"c", "o", "n", "t", "e", "n", "t">>
DNS == <<"d", "n", "s">>
ALL == <<"a", "l", "l">>
VALID_CATEGORIES == <<CONTENT, DNS, ALL>>

\* ------------------------------------------------------------------------
\* Archive parsing (download_and_parse_archive, the loop over tar members)
\* ------------------------------------------------------------------------
DIRECTIVE == <<"!", " ", "u", "r", "l", ":">>

RECURSIVE TakeNonSpace(_)
TakeNonSpace(s) ==
  IF s = <<>> THEN <<>>
  ELSE IF IsSpace(Head(s)) THEN <<>>
  ELSE <<Head(s)>> \o TakeNonSpace(Tail(s))

\* re.match(r'^!\s*url:\s*(\S+)', ...): any whitespace after the "!"
url_match_any_space(first_line) ==
  IF first_line # <<>> /\ Head(first_line) = "!"
  THEN LET rest == LStrip(Tail(first_line))
       IN IF Len(rest) >= 4 /\ Lower(SubSeq(rest, 1, 4)) = <<"u", "r", "l", ":">>
          THEN TakeNonSpace(LStrip(SubSeq(rest, 5, Len(rest))))
          ELSE <<>>
  ELSE <<>>

\* re.match(r'^! url:\s*(\S+)', first_line, re.IGNORECASE): group(1), or
\* <<>> when there is no match (a matched token is never empty)
url_match(first_line) ==
  IF Len(first_line) >= Len(DIRECTIVE)
     /\ Lower(SubSeq(first_line, 1, Len(DIRECTIVE))) = DIRECTIVE
  THEN TakeNonSpace(LStrip(SubSeq(first_line, Len(DIRECTIVE) + 1, Len(first_line))))
  ELSE <<>>

\* the directive line kept in the content
ContentWithDirective(lines) == JoinLines(lines)

\* content: '\n'.join(lines[1:])
ContentOf(lines) == JoinLines(Tail(lines))

\* the body of the member loop for one member, applied to temp_url_contents
ParseMember(temp, member) ==
  IF ~member.isfile THEN temp
  ELSE LET parts == Split(member.name, "/")
       IN IF Len(parts) < 3 THEN temp
          ELSE LET category == parts[3]
                   lines == SplitLines(Decode(member.data))
               IN IF lines = <<>> THEN temp
                  ELSE LET url == url_match(Strip(lines[1]))
                       IN IF url = <<>> THEN temp
                          ELSE LET content == ContentOf(lines)
                                   inner == DictGet(temp, category, <<>>)
                               IN DictSet(temp, category, DictSet(inner, url, content))

RECURSIVE ParseMembers(_, _)
ParseMembers(temp, members) ==
  IF members = <<>> THEN temp
  ELSE ParseMembers(ParseMember(temp, Head(members)), Tail(members))

\* the loop filling the dict that is published at the moment
parse_into_store(members) == ParseMembers(url_contents, members)

\* temp_url_contents after the loop over tar.getmembers()
temp_url_contents(members) == ParseMembers(<<>>, members)

\* ------------------------------------------------------------------------
\* Line matching (search and regex_search)
\* ------------------------------------------------------------------------
\* both real categories, whatever the category argument
categories_regardless(category) == SubSeq(VALID_CATEGORIES, 1, Len(VALID_CATEGORIES) - 1)

\* the category list searched for a category argument
categories_to_search(category) ==
  IF category = ALL THEN SubSeq(VALID_CATEGORIES, 1, Len(VALID_CATEGORIES) - 1)
  ELSE <<category>>

\* no pattern is rejected
re_error_never(pattern) == FALSE

\* re.compile(pattern, re.IGNORECASE) fails.  The modelled pattern alphabet
\* is letters, space, ".", "^", "$", "(" and "[": a pattern compiles iff it
\* opens no group and no character set (nothing in the alphabet closes one).
re_error(pattern) == \E i \in 1..Len(pattern) : pattern[i] \in {"(", "["}

\* the compiled pattern from position k matches line at position pos
RECURSIVE MatchFrom(_, _, _, _)
MatchFrom(regex, k, line, pos) ==
  IF k > Len(regex) THEN TRUE
  ELSE IF regex[k] = "^" THEN pos = 1 /\ MatchFrom(regex, k + 1, line, pos)
  ELSE IF regex[k] = "$" THEN pos = Len(line) + 1 /\ MatchFrom(regex, k + 1, line, pos)
  ELSE /\ pos <= Len(line)
       /\ \/ regex[k] = "." /\ line[pos] # "\n"
          \/ regex[k] # "." /\ LowerChar(regex[k]) = LowerChar(line[pos])
       /\ MatchFrom(regex, k + 1, line, pos + 1)

\* regex.search(line)
regex_search_line(regex, line) ==
  \E pos \in 1..(Len(line) + 1) : MatchFrom(regex, 1, line, pos)

\* keyword in line.lower()
keyword_in_line(keyword, line) == Contains(Lower(line), keyword)

\* the line test with the keyword compared against the line as it is
LineMatchesCaseSensitive(m, line) ==
  IF m.regex THEN regex_search_line(m.pat, line) ELSE Contains(line, m.pat)

\* the line test of either handler; m is the keyword or the compiled regex
LineMatches(m, line) ==
  IF m.regex THEN regex_search_line(m.pat, line) ELSE keyword_in_line(m.pat, line)

\* matching_lines of one content: (idx, line.strip()) for each matching line
RECURSIVE MatchingLines(_, _, _)
MatchingLines(lines, idx, m) ==
  IF idx > Len(lines) THEN <<>>
  ELSE (IF LineMatches(m, lines[idx]) THEN <<[num |-> idx, text |-> Strip(lines[idx])]>> ELSE <<>>)
       \o MatchingLines(lines, idx + 1, m)

\* the inner loop over the (url, content) items of one category
RECURSIVE ScanUrls(_, _, _)
ScanUrls(urls, i, m) ==
  IF i > Len(urls) THEN <<>>
  ELSE LET content == urls[i].v
           matching_lines ==
             IF content = <<>> THEN <<>>
             ELSE MatchingLines(SplitLines(content), 1, m)
           rest == ScanUrls(urls, i + 1, m)
       IN IF matching_lines = <<>> THEN rest
          ELSE <<[k |-> urls[i].k, v |-> matching_lines]>> \o rest

\* found_results: the loop over categories_to_search
RECURSIVE ScanCategories(_, _, _, _)
ScanCategories(corpus, cats, i, m) ==
  IF i > Len(cats) THEN <<>>
  ELSE LET hits == ScanUrls(DictGet(corpus, cats[i], <<>>), 1, m)
           rest == ScanCategories(corpus, cats, i + 1, m)
       IN IF hits = <<>> THEN rest
          ELSE <<[k |-> cats[i], v |-> hits]>> \o rest

search_found_results(corpus, category, keyword) ==
  ScanCategories(corpus, categories_to_search(category), 1,
                 [regex |-> FALSE, pat |-> keyword])

regex_found_results(corpus, category, regex) ==
  ScanCategories(corpus, categories_to_search(category), 1,
                 [regex |-> TRUE, pat |-> regex])

\* ------------------------------------------------------------------------
\* split_message
\* ------------------------------------------------------------------------
\* A message is modelled by the parts it is made of: units are indices into
\* the list of parts, len is the length of the resulting string.
NoticeMessage == [notice |-> TRUE, units |-> <<>>, len |-> NOTICE_LENGTH]

RECURSIVE SumLens(_, _)
SumLens(lens, units) ==
  IF units = <<>> THEN 0 ELSE lens[Head(units)] + SumLens(lens, Tail(units))

\* len(current_message) for a current message joined from the given parts
CurLen(lens, units) ==
  IF units = <<>> THEN 0 ELSE SumLens(lens, units) + 2 * (Len(units) - 1)

TextMessage(lens, units) ==
  [notice |-> FALSE, units |-> units, len |-> CurLen(lens, units)]

\* the closing test without the two characters of the separator
OverflowsNoSeparator(curlen, partlen) == curlen + partlen > MAX_MESSAGE_LENGTH

\* the closing test that also closes a message the part would fill exactly
OverflowsAtLimit(curlen, partlen) == curlen + partlen + 2 >= MAX_MESSAGE_LENGTH

\* the closing test of the loop: does adding the part overflow the message
Overflows(curlen, partlen) == curlen + partlen + 2 > MAX_MESSAGE_LENGTH

\* closing the last allowed message stops the loop without a notice
CloseMessageSilently(messages, lens, cur) ==
  LET appended == Append(messages, TextMessage(lens, cur))
  IN [messages |-> appended, stop |-> Len(appended) >= MAX_MESSAGES]

\* messages appended when the current message is closed
CloseMessage(messages, lens, cur) ==
  LET appended == Append(messages, TextMessage(lens, cur))
  IN IF Len(appended) >= MAX_MESSAGES
     THEN [messages |-> Append(appended, NoticeMessage), stop |-> TRUE]
     ELSE [messages |-> appended, stop |-> FALSE]

\* the for loop over parts, from part i on
RECURSIVE SplitLoop(_, _, _, _)
SplitLoop(lens, i, messages, cur) ==
  IF i > Len(lens) THEN [messages |-> messages, cur |-> cur]
  ELSE IF Overflows(CurLen(lens, cur), lens[i])
       THEN IF CurLen(lens, cur) > 0
            THEN LET closed == CloseMessage(messages, lens, cur)
                 IN IF closed.stop
                    THEN [messages |-> closed.messages, cur |-> cur]
                    ELSE SplitLoop(lens, i + 1, closed.messages, <<i>>)
            ELSE SplitLoop(lens, i + 1, messages, <<i>>)
       ELSE IF CurLen(lens, cur) > 0
            THEN SplitLoop(lens, i + 1, messages, cur \o <<i>>)
            ELSE SplitLoop(lens, i + 1, messages, <<i>>)

\* split_message for a message whose parts (message.split('\n\n')) have the
\* given lengths
split_message(lens) ==
  LET r == SplitLoop(lens, 1, <<>>, <<>>)
  IN IF CurLen(lens, r.cur) > 0 /\ Len(r.messages) < MAX_MESSAGES
     THEN Append(r.messages, TextMessage(lens, r.cur))
     ELSE r.messages

\* ------------------------------------------------------------------------
\* Response text (the f-strings of search and regex_search)
\* ------------------------------------------------------------------------
\* telegram.helpers.escape_markdown(text, version=2); the backquote, which
\* it also escapes, is not in the alphabet of the modelled texts
ESCAPE_CHARS ==
  {"\\", "_", "*", "[", "]", "(", ")", "~", ">", "#", "+", "-", "=", "|",
   "{", "}", ".", "!"}

RECURSIVE escape_markdown(_)
escape_markdown(text) ==
  IF text = <<>> THEN <<>>
  ELSE (IF Head(text) \in ESCAPE_CHARS THEN <<"\\", Head(text)>> ELSE <<Head(text)>>)
       \o escape_markdown(Tail(text))

\* n characters of the fixed text of a reply that are neither a line break
\* nor escaped (CJK characters, quote marks): only their number matters
FixedText(n) == [i \in 1..n |-> "@"]

DIGITS == <<"0", "1", "2", "3", "4", "5", "6", "7", "8", "9">>

\* str(n) for a natural number
RECURSIVE Str(_)
Str(n) == IF n < 10 THEN <<DIGITS[n + 1]>> ELSE Str(n \div 10) \o <<DIGITS[(n % 10) + 1]>>

\* os.path.basename(urlparse(url).path), for URLs that have no scheme, query
\* or fragment (the path is then the whole URL)
Basename(url) == LET parts == Split(url, "/") IN parts[Len(parts)]

RECURSIVE FormatMatches(_)
FormatMatches(matches) ==
  IF matches = <<>> THEN <<>>
  ELSE <<">", " ", "*">> \o Str(Head(matches).num) \o <<":", "*", "\n", ">", " ", "@">>
       \o escape_markdown(Head(matches).text) \o <<"@", "\n", "\n">>
       \o FormatMatches(Tail(matches))

RECURSIVE FormatUrls(_)
FormatUrls(urls) ==
  IF urls = <<>> THEN <<>>
  ELSE <<"*", " ", "[">> \o escape_markdown(Basename(Head(urls).k)) \o <<"]", "(">>
       \o escape_markdown(Head(urls).k) \o <<")", "\n">>
       \o FormatMatches(Head(urls).v) \o FormatUrls(Tail(urls))

RECURSIVE FormatCategories(_)
FormatCategories(found) ==
  IF found = <<>> THEN <<>>
  ELSE <<"*">> \o escape_markdown(Head(found).k) \o <<"*", ":", "\n", "\n">>
       \o FormatUrls(Head(found).v) \o <<"\n">> \o FormatCategories(Tail(found))

\* response of search
search_response(found_results, category, keyword) ==
  IF found_results # <<>>
  THEN <<"*">> \o FixedText(5) \o <<"*", "/">> \o escape_markdown(category) \o <<"\n">>
       \o <<"*">> \o FixedText(4) \o <<"*", "@">> \o escape_markdown(keyword) \o <<"@", "\n", "\n">>
       \o FormatCategories(found_results)
  ELSE FixedText(3) \o <<" ", "/">> \o escape_markdown(category) \o <<" ">> \o FixedText(9)
       \o <<" ", "@", "@">> \o escape_markdown(keyword) \o <<"@", "@", " ">> \o FixedText(5)
       \o <<" ", "U", "R", "L">> \o FixedText(1)

\* response of regex_search
regex_response(found_results, category, pattern) ==
  IF found_results # <<>>
  THEN <<"*">> \o FixedText(10) \o <<"*", "/">> \o escape_markdown(category) \o <<"\n">>
       \o <<"*">> \o FixedText(6) \o <<"*", "@">> \o escape_markdown(pattern) \o <<"@", "\n", "\n">>
       \o FormatCategories(found_results)
  ELSE FixedText(3) \o <<" ", "/">> \o escape_markdown(category) \o <<" ">> \o FixedText(11)
       \o <<" ", "@", "@">> \o escape_markdown(pattern) \o <<"@", "@", " ">> \o FixedText(5)
       \o <<" ", "U", "R", "L">> \o FixedText(1)

\* message.split('\n\n')
RECURSIVE SplitParagraphs(_)
SplitParagraphs(s) ==
  IF \E i \in 1..(Len(s) - 1) : s[i] = "\n" /\ s[i + 1] = "\n"
  THEN LET i == CHOOSE i \in 1..(Len(s) - 1) :
                   /\ s[i] = "\n" /\ s[i + 1] = "\n"
                   /\ \A j \in 1..(i - 1) : ~(s[j] = "\n" /\ s[j + 1] = "\n")
       IN <<SubSeq(s, 1, i - 1)>> \o SplitParagraphs(SubSeq(s, i + 2, Len(s)))
  ELSE <<s>>

\* split_message(response)
split_response(response) ==
  LET parts == SplitParagraphs(response)
  IN split_message([i \in 1..Len(parts) |-> Len(parts[i])])

\* ------------------------------------------------------------------------
\* Command handlers, up to their first await
\* ------------------------------------------------------------------------
\* The outcome of a handler: what it answers (kind), the found_results of
\* its scan, the messages of split_message, and the number of reply_text
\* calls its answer takes.
Outcome(kind, found, messages, replies) ==
  [kind |-> kind, found |-> found, messages |-> messages, replies |-> replies]

InValidCategories(category) ==
  \E i \in 1..Len(VALID_CATEGORIES) : VALID_CATEGORIES[i] = category

\* context.args[0].startswith('/')
HasCategoryArg(args) == args[1] # <<>> /\ args[1][1] = "/"

\* category of the request: 'all' unless the first argument names one
ArgCategory(args) == IF HasCategoryArg(args) THEN Lower(Tail(args[1])) ELSE ALL

\* the arguments that make up the keyword or the pattern
ArgRest(args) == IF HasCategoryArg(args) THEN Tail(args) ELSE args

\* search, from its entry to the result of split_message
search(corpus, args) ==
  IF Len(args) < 1 THEN Outcome("usage", <<>>, <<>>, 1)
  ELSE LET category == ArgCategory(args)
           keyword == Lower(JoinArgs(ArgRest(args)))
       IN IF ~InValidCategories(category) THEN Outcome("invalid_category", <<>>, <<>>, 1)
          ELSE IF keyword = <<>> THEN Outcome("empty_keyword", <<>>, <<>>, 1)
          ELSE LET found_results == search_found_results(corpus, category, keyword)
                   messages == split_response(search_response(found_results, category, keyword))
               IN Outcome(IF found_results # <<>> THEN "results" ELSE "no_results",
                          found_results, messages, Len(messages))

\* regex_search, from its entry to the result of split_message
regex_search(corpus, args) ==
  IF Len(args) < 1 THEN Outcome("usage", <<>>, <<>>, 1)
  ELSE LET category == ArgCategory(args)
           pattern == JoinArgs(ArgRest(args))
       IN IF ~InValidCategories(category) THEN Outcome("invalid_category", <<>>, <<>>, 1)
          ELSE IF pattern = <<>> THEN Outcome("empty_pattern", <<>>, <<>>, 1)
          ELSE IF re_error(pattern) THEN Outcome("invalid_pattern", <<>>, <<>>, 1)
          ELSE LET found_results == regex_found_results(corpus, category, pattern)
                   messages == split_response(regex_response(found_results, category, pattern))
               IN Outcome(IF found_results # <<>> THEN "results" ELSE "no_results",
                          found_results, messages, Len(messages))

\* number of entries of a category (xinfo)
CategoryCount(corpus, category) == Len(DictGet(corpus, category, <<>>))

\* the figures xinfo reports
xinfo_stats(corpus, loaded, updated) ==
  [loadedAt |-> loaded,
   updatedAt |-> updated,
   nextRefresh |-> IF updated # None THEN updated + UPDATE_INTERVAL ELSE None,
   counts |-> [i \in 1..(Len(VALID_CATEGORIES) - 1) |->
                 CategoryCount(corpus, VALID_CATEGORIES[i])]]

ADMIN_IDS == <<1>>

is_user_admin(user_id) == \E i \in 1..Len(ADMIN_IDS) : ADMIN_IDS[i] = user_id

\* "not user_id" alone
NotPermittedWithoutList(user_id) == user_id = 0

\* "not user_id or not is_user_admin(user_id)"; a missing user is user 0
NotPermitted(user_id) == user_id = 0 \/ ~is_user_admin(user_id)

\* ------------------------------------------------------------------------
\* Inputs of the environment
\* ------------------------------------------------------------------------
Member(isfile, name, data) == [isfile |-> isfile, name |-> name, data |-> data]

\* ./tmp/content/f1, ./tmp/dns/f2 (same URL, upper-case directive, one
\* undecodable byte), ./tmp/other/f3, ./tmp/dns/f4 (no directive line)
ArchiveA ==
  << Member(TRUE, <<".", "/", "t", "m", "p", "/", "c", "o", "n", "t", "e", "n", "t", "/", "f", "1">>,
            <<"!", " ", "u", "r", "l", ":", " ", "u", "\n", "a", "b", "\n", " ", "A", "b", " ", "\n", "b">>),
     Member(TRUE, <<".", "/", "t", "m", "p", "/", "d", "n", "s", "/", "f", "2">>,
            <<"!", " ", "U", "R", "L", ":", " ", "u", "\n", "b", "\n", "A", BADBYTE>>),
     Member(TRUE, <<".", "/", "t", "m", "p", "/", "o", "t", "h", "e", "r", "/", "f", "3">>,
            <<"!", " ", "u", "r", "l", ":", " ", "v", "\n", "a">>),
     Member(TRUE, <<".", "/", "t", "m", "p", "/", "d", "n", "s", "/", "f", "4">>,
            <<"a", "\n", "b">>) >>

\* ./tmp/dns (a directory), ./tmp/content/g1 and ./tmp/content/g2 (the same
\* URL twice), top/f (a path of two segments)
ArchiveB ==
  << Member(FALSE, <<".", "/", "t", "m", "p", "/", "d", "n", "s">>, <<>>),
     Member(TRUE, <<".", "/", "t", "m", "p", "/", "c", "o", "n", "t", "e", "n", "t", "/", "g", "1">>,
            <<"!", " ", "u", "r", "l", ":", " ", "w", "\n", "b", "a">>),
     Member(TRUE, <<".", "/", "t", "m", "p", "/", "c", "o", "n", "t", "e", "n", "t", "/", "g", "2">>,
            <<"!", " ", "u", "r", "l", ":", " ", "w", "\n", "a", "a", "\n", "\n", "b", ".">>),
     Member(TRUE, <<"t", "o", "p", "/", "f">>,
            <<"!", " ", "u", "r", "l", ":", " ", "w", "\n", "a">>) >>

\* What the archive URL can answer with: nothing (b""), bytes that do not
\* open as a gzip tar, or an archive.
Body(empty, opens, members) == [empty |-> empty, opens |-> opens, members |-> members]

Bodies ==
  << Body(TRUE, FALSE, <<>>),
     Body(FALSE, FALSE, <<>>),
     Body(FALSE, TRUE, ArchiveA),
     Body(FALSE, TRUE, ArchiveB) >>

\* ./tmp/dns/h (no directive line) and ./tmp/content (a directory): an
\* archive none of whose members is ingested
ArchiveC ==
  << Member(TRUE, <<".", "/", "t", "m", "p", "/", "d", "n", "s", "/", "h">>, <<"a">>),
     Member(FALSE, <<".", "/", "t", "m", "p", "/", "c", "o", "n", "t", "e", "n", "t">>, <<>>) >>

\* the answers of Bodies and the archive that parses to an empty dict
AllBodies == Append(Bodies, Body(FALSE, TRUE, ArchiveC))

\* context.args of the /search and /regex updates
Slash(category) == <<"/">> \o category

SearchArgs ==
  { << <<"B">> >>,
    << Slash(<<"x">>), <<"a">> >> }

RegexArgs ==
  { << Slash(<<"D", "N", "S">>), <<"b", "$">> >>,
    << <<"(", "a">> >> }

\* user ids of the updates; 0 stands for an update without a user
Users == {0, 1, 2}

\* ------------------------------------------------------------------------
\* Tasks and initial state
\* ------------------------------------------------------------------------
Tasks == {"main", "periodic", "handler"}
Refreshers == {"periodic", "handler"}

vars ==
  << now, phase, url_contents, initial_load_time, last_update_time,
     pc, retries, archive_data, wake, attempts, waits, outcome, cycle_start,
     ingested, failures, update, result, stats, view, to_send, sent,
     call >>

\* the variables of the running bot
botVars ==
  << now, phase, url_contents, initial_load_time, last_update_time,
     pc, retries, archive_data, wake, attempts, waits, outcome, cycle_start,
     ingested, failures, update, result, stats, view, to_send, sent >>

storeVars == << url_contents, initial_load_time, last_update_time, ingested >>
fetchVars == << retries, archive_data, attempts, waits >>
handlerVars == << update, result, stats, view, to_send, sent >>
clockVars == << now >>

\* the store as a reader sees it
Store == << url_contents, initial_load_time, last_update_time >>

NoResult == Outcome("none", <<>>, <<>>, 0)
NoView == [scanned |-> FALSE, dict |-> <<>>]
NoCycle == [store |-> << <<>>, None, None >>, disturbed |-> FALSE]
NoStats == [loadedAt |-> None, updatedAt |-> None, nextRefresh |-> None, counts |-> <<0, 0>>]
NoUpdate == [command |-> "none", args |-> <<>>, message |-> FALSE, user |-> 0]
\* an update of a command whose handler does not read update.effective_user
Update(command, args, m) == [command |-> command, args |-> args, message |-> m, user |-> 0]
\* an update of /fetchnow, which reads the id of update.effective_user
UpdateFrom(user, m) == [Update("fetchnow", <<>>, m) EXCEPT !.user = user]
NoCall == [fn |-> "none", arg |-> <<>>, ret |-> <<>>, done |-> FALSE]

\* the bot before main has run
Loaded ==
  /\ now = 0
  /\ phase = "startup"
  /\ url_contents = <<>>
  /\ initial_load_time = None
  /\ last_update_time = None
  /\ pc = [t \in Tasks |-> IF t = "main" THEN "attempt" ELSE "unborn"]
  /\ retries = [t \in Tasks |-> 0]
  /\ archive_data = [t \in Tasks |-> 0]
  /\ wake = [t \in Tasks |-> 0]
  /\ attempts = [t \in Tasks |-> 0]
  /\ waits = [t \in Tasks |-> 0]
  /\ outcome = [t \in Tasks |-> "none"]
  /\ cycle_start = [t \in Tasks |-> NoCycle]
  /\ ingested = FALSE
  /\ failures = 0
  /\ update = NoUpdate
  /\ result = NoResult
  /\ stats = NoStats
  /\ view = NoView
  /\ to_send = 0
  /\ sent = 0

Init == Loaded /\ call = NoCall

Alive == phase # "exited"

\* ------------------------------------------------------------------------
\* download_archive
\* ------------------------------------------------------------------------
\* the loop test with the bound included
RetriesLeftInclusive(n) == n <= MAX_RETRIES

\* the loop test after a failed attempt: is another attempt made
RetriesLeft(n) == n < MAX_RETRIES

\* the request fails or times out: sleep and retry, or raise after the last
AttemptFail(t) ==
  /\ Alive
  /\ pc[t] = "attempt"
  /\ retries[t] > 0 \/ failures < MaxFailingCycles
  /\ now + RETRY_INTERVAL <= MaxTime
  /\ failures' = IF retries[t] = 0 THEN failures + 1 ELSE failures
  /\ attempts' = [attempts EXCEPT ![t] = @ + 1]
  /\ retries' = [retries EXCEPT ![t] = @ + 1]
  /\ IF RetriesLeft(retries[t] + 1)
     THEN /\ pc' = [pc EXCEPT ![t] = "retry_sleep"]
          /\ wake' = [wake EXCEPT ![t] = now + RETRY_INTERVAL]
          /\ waits' = [waits EXCEPT ![t] = @ + 1]
          /\ outcome' = outcome
     ELSE /\ pc' = [pc EXCEPT ![t] = "raised"]
          /\ outcome' = [outcome EXCEPT ![t] = "fetch_error"]
          /\ UNCHANGED << wake, waits >>
  /\ UNCHANGED << archive_data, cycle_start, phase >>
  /\ UNCHANGED << storeVars, handlerVars, clockVars >>
  /\ UNCHANGED call

\* asyncio.sleep(RETRY_INTERVAL) returns
RetryWake(t) ==
  /\ Alive
  /\ pc[t] = "retry_sleep"
  /\ now >= wake[t]
  /\ pc' = [pc EXCEPT ![t] = "attempt"]
  /\ wake' = [wake EXCEPT ![t] = 0]
  /\ UNCHANGED << fetchVars, outcome, cycle_start, failures, phase >>
  /\ UNCHANGED << storeVars, handlerVars, clockVars >>
  /\ UNCHANGED call

\* ------------------------------------------------------------------------
\* download_and_parse_archive, from the downloaded data to the end
\* ------------------------------------------------------------------------
\* "if not archive_data"
NoData(body) == body.empty

\* no archive is rejected
ParseErrorSwallowed(body) == FALSE

\* tarfile.open or tar.getmembers raises
ParseFails(body) == ~body.opens

\* old.update(temp): the published dict is updated where it is
RECURSIVE UpdatedInPlace(_, _)
UpdatedInPlace(old, temp) ==
  IF temp = <<>> THEN old
  ELSE UpdatedInPlace(DictSet(old, Head(temp).k, Head(temp).v), Tail(temp))

\* an empty parse leaves the published dict in place
KeptWhenEmpty(old, temp) == IF temp = <<>> THEN old ELSE temp

\* the dict url_contents is bound to by a publish
PublishedCorpus(old, temp) == temp

\* last_update_time set by the first publish only
FirstUpdateKept(updated, t) == IF updated = None THEN t ELSE updated

\* last_update_time after a publish at time t
NewLastUpdate(updated, t) == t

\* initial_load_time set by every publish
NewInitialLoadAlways(loaded, t) == t

\* initial_load_time set only when it is already set
NewInitialLoadInverted(loaded, t) == IF loaded # None THEN t ELSE loaded

\* initial_load_time after a publish at time t
NewInitialLoad(loaded, t) == IF loaded = None THEN t ELSE loaded

\* task t is inside download_and_parse_archive
InCycle(t) == pc[t] \in {"attempt", "retry_sleep", "returned", "raised"}

\* begin a cycle: the first request of download_archive is in flight
BeginCycle(t) ==
  /\ pc' = [pc EXCEPT ![t] = "attempt"]
  /\ retries' = [retries EXCEPT ![t] = 0]
  /\ archive_data' = [archive_data EXCEPT ![t] = 0]
  /\ attempts' = [attempts EXCEPT ![t] = 0]
  /\ waits' = [waits EXCEPT ![t] = 0]
  /\ outcome' = [outcome EXCEPT ![t] = "none"]
  /\ cycle_start' = [cycle_start EXCEPT ![t] = [store |-> Store, disturbed |-> FALSE]]

\* the cycle is over and its caller goes on: the locals of the call are gone
EndCycle(t) ==
  /\ retries' = [retries EXCEPT ![t] = 0]
  /\ archive_data' = [archive_data EXCEPT ![t] = 0]
  /\ attempts' = [attempts EXCEPT ![t] = 0]
  /\ waits' = [waits EXCEPT ![t] = 0]
  /\ outcome' = [outcome EXCEPT ![t] = "none"]
  /\ cycle_start' = [cycle_start EXCEPT ![t] = NoCycle]

\* session.get answers and response.read() returns body (answer number b):
\* download_archive returns it, and the empty test, the parse and the publish
\* run to the end without giving way to another task
AttemptGot(t, b, body) ==
  /\ Alive
  /\ pc[t] = "attempt"
  /\ archive_data' = [archive_data EXCEPT ![t] = b]
  /\ attempts' = [attempts EXCEPT ![t] = @ + 1]
  /\ IF NoData(body)
     THEN /\ outcome' = [outcome EXCEPT ![t] = "empty"]
          /\ pc' = [pc EXCEPT ![t] = "raised"]
          /\ UNCHANGED << storeVars, cycle_start >>
     ELSE IF ParseFails(body)
     THEN /\ outcome' = [outcome EXCEPT ![t] = "parse_error"]
          /\ pc' = [pc EXCEPT ![t] = "raised"]
          /\ UNCHANGED << storeVars, cycle_start >>
     ELSE /\ url_contents' = PublishedCorpus(url_contents, temp_url_contents(body.members))
          /\ last_update_time' = NewLastUpdate(last_update_time, now)
          /\ initial_load_time' = NewInitialLoad(initial_load_time, now)
          /\ ingested' = TRUE
          /\ outcome' = [outcome EXCEPT ![t] = "ok"]
          /\ pc' = [pc EXCEPT ![t] = "returned"]
          /\ cycle_start' = [u \in Tasks |->
                 IF u # t /\ InCycle(u)
                 THEN [cycle_start[u] EXCEPT !.disturbed = TRUE]
                 ELSE cycle_start[u]]
  /\ UNCHANGED << retries, waits, wake, failures, phase >>
  /\ UNCHANGED << handlerVars, clockVars >>
  /\ UNCHANGED call

\* the request of task t is answered with one of Bodies
AttemptOk(t, b) == AttemptGot(t, b, Bodies[b])

\* ------------------------------------------------------------------------
\* main and periodic_update
\* ------------------------------------------------------------------------
\* the first load succeeded: the handlers are registered, the periodic task
\* is created and starts its first sleep, polling begins
main_started ==
  /\ Alive
  /\ pc["main"] = "returned"
  /\ phase' = "running"
  /\ pc' = [pc EXCEPT !["main"] = "polling", !["periodic"] = "sleep", !["handler"] = "idle"]
  /\ wake' = [wake EXCEPT !["periodic"] = now + UPDATE_INTERVAL]
  /\ EndCycle("main")
  /\ UNCHANGED << failures >>
  /\ UNCHANGED << storeVars, handlerVars, clockVars >>
  /\ UNCHANGED call

\* the first load raised and main goes on as if it had succeeded
main_failure_survived ==
  /\ Alive
  /\ pc["main"] = "raised"
  /\ phase' = "running"
  /\ pc' = [pc EXCEPT !["main"] = "polling", !["periodic"] = "sleep", !["handler"] = "idle"]
  /\ wake' = [wake EXCEPT !["periodic"] = now + UPDATE_INTERVAL]
  /\ EndCycle("main")
  /\ UNCHANGED << failures >>
  /\ UNCHANGED << storeVars, handlerVars, clockVars >>
  /\ UNCHANGED call

\* the first load raised: sys.exit(1)
main_failed ==
  /\ Alive
  /\ pc["main"] = "raised"
  /\ phase' = "exited"
  /\ pc' = [pc EXCEPT !["main"] = "exited"]
  /\ UNCHANGED << fetchVars, wake, outcome, cycle_start, failures >>
  /\ UNCHANGED << storeVars, handlerVars, clockVars >>
  /\ UNCHANGED call

\* asyncio.sleep(60 * 60) returns and the cycle begins
periodic_wake ==
  /\ Alive
  /\ pc["periodic"] = "sleep"
  /\ now >= wake["periodic"]
  /\ BeginCycle("periodic")
  /\ wake' = [wake EXCEPT !["periodic"] = 0]
  /\ UNCHANGED << failures, phase >>
  /\ UNCHANGED << storeVars, handlerVars, clockVars >>
  /\ UNCHANGED call

\* the cycle returned: sleep again; an exception of the cycle is not caught
\* and ends the task
periodic_stops_on_error ==
  /\ Alive
  /\ pc["periodic"] = "returned"
  /\ pc' = [pc EXCEPT !["periodic"] = "sleep"]
  /\ wake' = [wake EXCEPT !["periodic"] = now + UPDATE_INTERVAL]
  /\ EndCycle("periodic")
  /\ UNCHANGED << failures, phase >>
  /\ UNCHANGED << storeVars, handlerVars, clockVars >>
  /\ UNCHANGED call

\* the cycle returned or raised (caught and logged): sleep again
periodic_again ==
  /\ Alive
  /\ pc["periodic"] \in {"returned", "raised"}
  /\ pc' = [pc EXCEPT !["periodic"] = "sleep"]
  /\ wake' = [wake EXCEPT !["periodic"] = now + UPDATE_INTERVAL]
  /\ EndCycle("periodic")
  /\ UNCHANGED << failures, phase >>
  /\ UNCHANGED << storeVars, handlerVars, clockVars >>
  /\ UNCHANGED call

\* ------------------------------------------------------------------------
\* Command handlers
\* ------------------------------------------------------------------------
\* an update can be handled: polling runs and no other update is in progress
Ready == phase = "running" /\ pc["handler"] = "idle"

\* the handler answers out: each reply is sent only if the update has a
\* message, and the handler is suspended in its first reply_text; without
\* one it only logs and is about to return
Respond(out, m) ==
  /\ result' = out
  /\ sent' = 0
  /\ to_send' = IF m THEN out.replies ELSE 0
  /\ pc' = [pc EXCEPT !["handler"] =
              IF m /\ out.replies > 0 THEN "sending" ELSE "returning"]

Scanned(out) == out.kind \in {"results", "no_results"}

\* /search
handle_search(args, m) ==
  /\ Ready
  /\ update' = Update("search", args, m)
  /\ LET out == search(url_contents, args)
     IN /\ Respond(out, m)
        /\ view' = IF Scanned(out) THEN [scanned |-> TRUE, dict |-> url_contents] ELSE NoView
        /\ url_contents' = IF Scanned(out)
                           THEN AfterGets(url_contents, categories_to_search(ArgCategory(args)), 1)
                           ELSE url_contents
  /\ UNCHANGED << fetchVars, wake, outcome, cycle_start, failures, phase, stats >>
  /\ UNCHANGED << initial_load_time, last_update_time, ingested, clockVars >>
  /\ UNCHANGED call

\* /regex
handle_regex(args, m) ==
  /\ Ready
  /\ update' = Update("regex", args, m)
  /\ LET out == regex_search(url_contents, args)
     IN /\ Respond(out, m)
        /\ view' = IF Scanned(out) THEN [scanned |-> TRUE, dict |-> url_contents] ELSE NoView
        /\ url_contents' = IF Scanned(out)
                           THEN AfterGets(url_contents, categories_to_search(ArgCategory(args)), 1)
                           ELSE url_contents
  /\ UNCHANGED << fetchVars, wake, outcome, cycle_start, failures, phase, stats >>
  /\ UNCHANGED << initial_load_time, last_update_time, ingested, clockVars >>
  /\ UNCHANGED call

\* /info
xinfo(m) ==
  /\ Ready
  /\ update' = Update("info", <<>>, m)
  /\ stats' = xinfo_stats(url_contents, initial_load_time, last_update_time)
  /\ Respond(Outcome("info", <<>>, <<>>, 1), m)
  /\ view' = NoView
  /\ url_contents' = AfterGets(url_contents, SubSeq(VALID_CATEGORIES, 1, Len(VALID_CATEGORIES) - 1), 1)
  /\ UNCHANGED << fetchVars, wake, outcome, cycle_start, failures, phase >>
  /\ UNCHANGED << initial_load_time, last_update_time, ingested, clockVars >>
  /\ UNCHANGED call

\* /fetchnow from a user who may not use it
fetchnow_denied(user, m) ==
  /\ Ready
  /\ NotPermitted(user)
  /\ update' = UpdateFrom(user, m)
  /\ Respond(Outcome("denied", <<>>, <<>>, 1), m)
  /\ view' = NoView
  /\ UNCHANGED << fetchVars, wake, outcome, cycle_start, failures, phase, stats >>
  /\ UNCHANGED << storeVars, clockVars >>
  /\ UNCHANGED call

\* /fetchnow from an administrator: the cycle begins (Next draws it from the
\* updates that carry a message)
fetchnow(user, m) ==
  /\ Ready
  /\ ~NotPermitted(user)
  /\ update' = UpdateFrom(user, m)
  /\ BeginCycle("handler")
  /\ result' = Outcome("reloading", <<>>, <<>>, 0)
  /\ view' = NoView
  /\ sent' = 0
  /\ to_send' = 0
  /\ UNCHANGED << wake, phase, stats, failures >>
  /\ UNCHANGED << storeVars, clockVars >>
  /\ UNCHANGED call

\* the cycle of /fetchnow returned, or raised and was caught: answer
fetchnow_done ==
  /\ Alive
  /\ pc["handler"] \in {"returned", "raised"}
  /\ Respond(Outcome(IF pc["handler"] = "returned" THEN "reloaded" ELSE "reload_failed",
                     <<>>, <<>>, 1), update.message)
  /\ EndCycle("handler")
  /\ UNCHANGED << wake, failures, phase, update, stats, view >>
  /\ UNCHANGED << storeVars, clockVars >>
  /\ UNCHANGED call

\* one reply_text call completes; the handler returns after the last
reply_sent ==
  /\ Alive
  /\ pc["handler"] = "sending"
  /\ sent' = sent + 1
  /\ to_send' = to_send - 1
  /\ pc' = [pc EXCEPT !["handler"] = IF to_send = 1 THEN "returning" ELSE "sending"]
  /\ UNCHANGED << fetchVars, wake, outcome, cycle_start, failures, phase, update, result, stats, view >>
  /\ UNCHANGED << storeVars, clockVars >>
  /\ UNCHANGED call

\* the handler returns: its locals are gone, the next update can be handled
handler_return ==
  /\ Alive
  /\ pc["handler"] = "returning"
  /\ pc' = [pc EXCEPT !["handler"] = "idle"]
  /\ update' = NoUpdate
  /\ result' = NoResult
  /\ stats' = NoStats
  /\ view' = NoView
  /\ to_send' = 0
  /\ sent' = 0
  /\ UNCHANGED << fetchVars, wake, outcome, cycle_start, failures, phase >>
  /\ UNCHANGED << storeVars, clockVars >>
  /\ UNCHANGED call

\* ------------------------------------------------------------------------
\* Time
\* ------------------------------------------------------------------------
\* the times at which a sleeping task is due
Deadlines == {wake[t] : t \in {u \in Tasks : pc[u] \in {"sleep", "retry_sleep"}}}

\* task t waits for a request, a reply or its continuation, not for a sleep
Busy(t) == pc[t] \in {"attempt", "returned", "raised", "sending", "returning"}

\* Time passes while every task sleeps or is idle: requests (timeout 15 s)
\* and replies are short beside RETRY_INTERVAL and the hour of the periodic
\* sleep and are taken to complete within the second they start in.  The
\* clock moves to the next time a sleep is due and never passes the time a
\* sleeping task is due before that task has run.
AdvanceTo(t, limit) ==
  /\ Alive
  /\ \A u \in Tasks : ~Busy(u)
  /\ t > now
  /\ t <= limit
  /\ t \in Deadlines
  /\ \A d \in Deadlines : t <= d
  /\ now' = t
  /\ UNCHANGED << pc, fetchVars, wake, outcome, cycle_start, failures, phase >>
  /\ UNCHANGED << storeVars, handlerVars >>
  /\ UNCHANGED call

Advance(t) == AdvanceTo(t, MaxTime)

\* ------------------------------------------------------------------------
\* Specification
\* ------------------------------------------------------------------------
Next ==
  \/ \E t \in Tasks : \E b \in 1..Len(Bodies) : AttemptOk(t, b)
  \/ \E t \in Tasks : AttemptFail(t)
  \/ \E t \in Tasks : RetryWake(t)
  \/ main_started
  \/ main_failed
  \/ periodic_wake
  \/ periodic_again
  \/ \E args \in SearchArgs : \E m \in BOOLEAN : handle_search(args, m)
  \/ \E args \in RegexArgs : \E m \in BOOLEAN : handle_regex(args, m)
  \/ \E m \in BOOLEAN : xinfo(m)
  \/ \E u \in Users : \E m \in BOOLEAN : fetchnow_denied(u, m)
  \/ \E u \in Users : fetchnow(u, TRUE)
  \/ fetchnow_done
  \/ reply_sent
  \/ handler_return
  \/ \E t \in (now + 1)..MaxTime : Advance(t)

Spec == Init /\ [][Next]_vars

\* the steps of download_archive in task t
FetchStep(t) ==
  \/ \E b \in 1..Len(Bodies) : AttemptOk(t, b)
  \/ AttemptFail(t)
  \/ RetryWake(t)

\* the first load and the periodic task alone, without the updates of users
NextFetch ==
  \/ \E t \in Tasks : FetchStep(t)
  \/ main_started
  \/ main_failed
  \/ periodic_wake
  \/ periodic_again
  \/ \E t \in (now + 1)..MaxTime : Advance(t)

\* The event loop is fair to every task: a request in flight completes or
\* times out (15 s), a sleep that is due returns, a task that can go on is
\* resumed, and time passes.
SpecFetch ==
  /\ Init
  /\ [][NextFetch]_vars
  /\ \A t \in Tasks : WF_vars(FetchStep(t))
  /\ WF_vars(main_started \/ main_failed \/ periodic_wake \/ periodic_again)
  /\ WF_vars(\E t \in (now + 1)..MaxTime : Advance(t))

\* ------------------------------------------------------------------------
\* The first load and the periodic task over MaxTicks hours
\* ------------------------------------------------------------------------
\* the last time the clock is moved to: MaxTicks sleeps of the periodic task
TimerHorizon == MaxTime + (MaxTicks - 1) * UPDATE_INTERVAL

\* the steps of a cycle of task t, answered with any of AllBodies
TimerStep(t) ==
  \/ \E b \in 1..Len(AllBodies) : AttemptGot(t, b, AllBodies[b])
  \/ AttemptFail(t)
  \/ RetryWake(t)

AdvanceTimer(t) == AdvanceTo(t, TimerHorizon)

NextTimer ==
  \/ \E t \in Tasks : TimerStep(t)
  \/ main_started
  \/ main_failed
  \/ periodic_wake
  \/ periodic_again
  \/ \E t \in (now + 1)..TimerHorizon : AdvanceTimer(t)

\* fairness of the event loop, as in SpecFetch
SpecTimer ==
  /\ Init
  /\ [][NextTimer]_vars
  /\ \A t \in Tasks : WF_vars(TimerStep(t))
  /\ WF_vars(main_started \/ main_failed \/ periodic_wake \/ periodic_again)
  /\ WF_vars(\E t \in (now + 1)..TimerHorizon : AdvanceTimer(t))

\* ------------------------------------------------------------------------
\* split_message on its own
\* ------------------------------------------------------------------------
\* lengths of the parts of a message, around the places where the length
\* test of split_message changes its answer
PartLengths ==
  {0, 1, 1500, MAX_MESSAGE_LENGTH \div 2 - 1, MAX_MESSAGE_LENGTH \div 2,
   MAX_MESSAGE_LENGTH - 2, MAX_MESSAGE_LENGTH - 1, MAX_MESSAGE_LENGTH,
   MAX_MESSAGE_LENGTH + 1}

\* message.split('\n\n') has at least one part
PartLists == UNION {[1..n -> PartLengths] : n \in 1..MaxParts}

InitPaginate ==
  /\ Loaded
  /\ call \in {[fn |-> "split_message", arg |-> lens, ret |-> <<>>, done |-> FALSE] :
                 lens \in PartLists}

call_split_message ==
  /\ call.fn = "split_message"
  /\ ~call.done
  /\ call' = [call EXCEPT !.ret = split_message(call.arg), !.done = TRUE]
  /\ UNCHANGED botVars

NextPaginate == call_split_message

SpecPaginate == InitPaginate /\ [][NextPaginate]_vars

\* ------------------------------------------------------------------------
\* The scans of search and regex_search on their own
\* ------------------------------------------------------------------------
\* lines of a rule file: a blank line, a rule, a rule with surrounding
\* whitespace and other case
RuleLines == {<<>>, <<"a", "b">>, <<" ", "B", " ">>}

LineLists == UNION {[1..n -> RuleLines] : n \in 0..MaxLines}

\* content as download_and_parse_archive stores it
Contents == {JoinLines(lines) : lines \in LineLists}

URL_U == <<"u">>
URL_V == <<"v">>

\* a third path segment that is no category of VALID_CATEGORIES
OTHER_TAG == <<"o", "t", "h", "e", "r">>

\* the dns category with one URL, and a category of another name
DnsUrls == [k |-> DNS, v |-> <<[k |-> URL_U, v |-> <<"A", "\n", " ", "b">>]>>]
OtherUrls == [k |-> OTHER_TAG, v |-> <<[k |-> URL_U, v |-> <<"a", "b">>]>>]

\* corpora: two URLs in content; dns absent, after content, or before it
\* behind a category of another name (the keys are in archive order)
Corpora ==
  UNION {LET ContentUrls ==
               [k |-> CONTENT, v |-> <<[k |-> URL_U, v |-> c1], [k |-> URL_V, v |-> c2]>>]
         IN {<<ContentUrls>>, <<ContentUrls, DnsUrls>>, <<OtherUrls, DnsUrls, ContentUrls>>} :
         c1 \in Contents, c2 \in Contents}

Keywords == {<<"b">>, <<"a", "b">>, <<" ">>}
Patterns == {<<"B">>, <<"^", "a">>, <<"b", "$">>, <<"^", "$">>, <<"a", ".">>}

Queries ==
  {[regex |-> FALSE, category |-> c, pat |-> k] :
     c \in {VALID_CATEGORIES[i] : i \in 1..Len(VALID_CATEGORIES)}, k \in Keywords}
  \cup
  {[regex |-> TRUE, category |-> c, pat |-> r] :
     c \in {VALID_CATEGORIES[i] : i \in 1..Len(VALID_CATEGORIES)}, r \in Patterns}

InitSearch ==
  /\ Loaded
  /\ call \in {[fn |-> "scan", arg |-> [corpus |-> c, query |-> q], ret |-> <<>>, done |-> FALSE] :
                 c \in Corpora, q \in Queries}

call_search ==
  /\ call.fn = "scan"
  /\ ~call.done
  /\ ~call.arg.query.regex
  /\ call' = [call EXCEPT
                !.ret = search_found_results(call.arg.corpus, call.arg.query.category,
                                             call.arg.query.pat),
                !.done = TRUE]
  /\ UNCHANGED botVars

call_regex_search ==
  /\ call.fn = "scan"
  /\ ~call.done
  /\ call.arg.query.regex
  /\ call' = [call EXCEPT
                !.ret = regex_found_results(call.arg.corpus, call.arg.query.category,
                                            call.arg.query.pat),
                !.done = TRUE]
  /\ UNCHANGED botVars

NextSearch == call_search \/ call_regex_search

SpecSearch == InitSearch /\ [][NextSearch]_vars

\* ------------------------------------------------------------------------
\* The member loop of download_and_parse_archive on its own
\* ------------------------------------------------------------------------
PATH_CONTENT == <<".", "/", "t", "m", "p", "/", "c", "o", "n", "t", "e", "n", "t", "/", "f">>
PATH_DNS == <<".", "/", "t", "m", "p", "/", "d", "n", "s", "/", "f">>
PATH_TOP == <<"t", "o", "p", "/", "f">>
PATH_DIR == <<".", "/", "t", "m", "p", "/", "d", "n", "s">>

\* members of an archive
Files ==
  {
    \* first line '! url: u', body a, b, c
    Member(TRUE, PATH_CONTENT, <<"!", " ", "u", "r", "l", ":", " ", "u", "\n", "a", "\n", "b", "\n", "c">>),
    \* the directive line alone
    Member(TRUE, PATH_CONTENT, <<"!", " ", "u", "r", "l", ":", " ", "v">>),
    \* the same URL as the first, the file ends with a line break
    Member(TRUE, PATH_CONTENT, <<"!", " ", "u", "r", "l", ":", " ", "u", "\n", "b", "\n">>),
    \* the same URL as the second
    Member(TRUE, PATH_CONTENT, <<"!", " ", "u", "r", "l", ":", " ", "v", "\n", "b">>),
    \* no space after the '!'
    Member(TRUE, PATH_CONTENT, <<"!", "u", "r", "l", ":", " ", "u", "\n", "a">>),
    \* two spaces after the '!'
    Member(TRUE, PATH_CONTENT, <<"!", " ", " ", "u", "r", "l", ":", " ", "u", "\n", "a">>),
    \* a space before the '!'
    Member(TRUE, PATH_CONTENT, <<" ", "!", " ", "u", "r", "l", ":", " ", "u", "\n", "a">>),
    \* upper case, no space before the token, a blank line
    Member(TRUE, PATH_CONTENT, <<"!", " ", "U", "R", "L", ":", "u", "\n", "\n", "a">>),
    \* no token
    Member(TRUE, PATH_CONTENT, <<"!", " ", "u", "r", "l", ":", "\n", "a">>),
    \* the directive on the second line
    Member(TRUE, PATH_CONTENT, <<"a", "b", "\n", "!", " ", "u", "r", "l", ":", " ", "u">>),
    \* an empty file
    Member(TRUE, PATH_CONTENT, <<>>),
    \* the URL of the first in the other category
    Member(TRUE, PATH_DNS, <<"!", " ", "u", "r", "l", ":", " ", "u", "\n", "b">>),
    \* a path of two segments
    Member(TRUE, PATH_TOP, <<"!", " ", "u", "r", "l", ":", " ", "u", "\n", "a">>),
    \* a directory
    Member(FALSE, PATH_DIR, <<>>)
  }

\* tar.getmembers(): up to MaxFiles members in archive order
ArchiveLists == UNION {[1..n -> Files] : n \in 1..MaxFiles}

InitParse ==
  /\ Loaded
  /\ call \in {[fn |-> "parse", arg |-> members, ret |-> <<>>, done |-> FALSE] :
                 members \in ArchiveLists}

\* the member loop fills temp_url_contents
call_parse ==
  /\ call.fn = "parse"
  /\ ~call.done
  /\ call' = [call EXCEPT !.ret = temp_url_contents(call.arg), !.done = TRUE]
  /\ UNCHANGED botVars

\* a scan of search or regex_search over the parsed dict
call_parsed_search(q) ==
  /\ call.fn = "parse"
  /\ call.done
  /\ call' = [fn |-> "parsed_scan",
              arg |-> [members |-> call.arg, corpus |-> call.ret, query |-> q],
              ret |-> ScanCategories(call.ret, categories_to_search(q.category), 1,
                                     [regex |-> q.regex, pat |-> q.pat]),
              done |-> TRUE]
  /\ UNCHANGED botVars

NextParse ==
  \/ call_parse
  \/ \E q \in Queries : call_parsed_search(q)

SpecParse == InitParse /\ [][NextParse]_vars

\* ------------------------------------------------------------------------
\* SpecReaders: the bot after its first load, handling /search, /regex and
\* /info with every kind of argument list and no refresh
\* ------------------------------------------------------------------------
\* no argument, a keyword that matches, one that matches nothing, an unknown
\* category, a category and no keyword, a category and a keyword
ReaderSearchArgs ==
  { <<>>,
    << <<"B">> >>,
    << <<"z">> >>,
    << Slash(<<"x">>), <<"a">> >>,
    << Slash(<<"d", "n", "s">>) >>,
    << Slash(<<"D", "N", "S">>), <<"b">> >>,
    << Slash(<<"a", "l", "l">>), <<"a">>, <<"b">> >> }

\* no argument, a pattern that matches, one that matches nothing, an unknown
\* category, a category and no pattern, a pattern that does not compile
ReaderRegexArgs ==
  { <<>>,
    << Slash(<<"D", "N", "S">>), <<"b", "$">> >>,
    << <<"^", "z">> >>,
    << Slash(<<"x">>), <<"a">> >>,
    << Slash(<<"c", "o", "n", "t", "e", "n", "t">>) >>,
    << <<"(", "a">> >>,
    << Slash(<<"d", "n", "s">>), <<"[">> >> }

NextReaders ==
  \/ \E b \in 1..Len(AllBodies) : AttemptGot("main", b, AllBodies[b])
  \/ main_started
  \/ main_failed
  \/ \E args \in ReaderSearchArgs : \E m \in BOOLEAN : handle_search(args, m)
  \/ \E args \in ReaderRegexArgs : \E m \in BOOLEAN : handle_regex(args, m)
  \/ \E m \in BOOLEAN : xinfo(m)
  \/ reply_sent
  \/ handler_return

SpecReaders == Init /\ [][NextReaders]_vars

\* ========================================================================
\* Claims
\* ========================================================================

\* ------------------------------------------------------------------------
\* C1: a failing refresh cycle (under Spec)
\* ------------------------------------------------------------------------
\* the step in which the cycle of task t fails: its fifth request fails, or
\* the body it downloads is empty or does not open as an archive
FailingStep(t) ==
  /\ pc[t] = "attempt"
  /\ \/ retries[t] = MAX_RETRIES - 1 /\ retries'[t] = MAX_RETRIES
     \/ /\ archive_data'[t] # 0
        /\ Bodies[archive_data'[t]].empty \/ ~Bodies[archive_data'[t]].opens

\* C1 (amended): a scheduled or manual cycle that fails in fetching or in
\* parsing ends without publishing and the process keeps running: the
\* failing cycle leaves corpus, loadedAt and updatedAt as they are, so they
\* are what they were when the cycle started unless another refresh cycle
\* published while it ran.
C1_FailedCycleKeepsStore ==
  [][\A t \in Refreshers :
       FailingStep(t) =>
         /\ pc'[t] = "raised"
         /\ Store' = Store
         /\ phase' = "running"
         /\ ~cycle_start[t].disturbed => Store' = cycle_start[t].store]_vars

\* C1 (as stated): after a failing cycle corpus, loadedAt and updatedAt are
\* exactly what they were before the cycle started.
C1_StoreAsBeforeCycle ==
  [][\A t \in Refreshers :
       FailingStep(t) =>
         /\ pc'[t] = "raised"
         /\ phase' = "running"
         /\ Store' = cycle_start[t].store]_vars

\* C1 witness: the scheduled cycle ran out of retries while a manual cycle
\* published, and the process runs
C1_Witness ==
  /\ pc["periodic"] = "raised"
  /\ outcome["periodic"] = "fetch_error"
  /\ cycle_start["periodic"].disturbed
  /\ Store # cycle_start["periodic"].store
  /\ phase = "running"

\* ------------------------------------------------------------------------
\* C2: a query reads one generation (under Spec)
\* ------------------------------------------------------------------------
\* the whole corpus of each archive the URL can answer with
Generations ==
  {ParseMembers(<<>>, Bodies[b].members) :
     b \in {i \in 1..Len(Bodies) : ~Bodies[i].empty /\ Bodies[i].opens}}

\* d is the whole corpus of one archive
IsGeneration(d) == d \in Generations

\* C2: under every interleaving of queries with scheduled and manual cycles
\* the dict a query can read is the whole corpus of one archive, and the
\* result of a query is the result of scanning one such corpus.
C2_OneGeneration ==
  /\ phase = "running" => IsGeneration(url_contents)
  /\ view.scanned =>
       /\ IsGeneration(view.dict)
       /\ \/ update.command = "search" /\ result = search(view.dict, update.args)
          \/ update.command = "regex" /\ result = regex_search(view.dict, update.args)

\* C2 witness: a query found matches and is delivering them while the
\* scheduled cycle is between two requests
C2_Witness ==
  /\ view.scanned
  /\ result.kind = "results"
  /\ pc["handler"] = "sending"
  /\ pc["periodic"] = "retry_sleep"

\* ------------------------------------------------------------------------
\* C3: download_archive (under SpecFetch)
\* ------------------------------------------------------------------------
Min(a, b) == IF a < b THEN a ELSE b

FetchOver(t) == pc[t] \in {"returned", "raised"}

\* with k = retries[t] failed requests: min(k + 1, 5) requests and min(k, 4)
\* sleeps were made; the data is returned iff k < 5, else the fetch raised
C3_Counts ==
  \A t \in Tasks :
    /\ attempts[t] <= MAX_RETRIES
    /\ waits[t] <= MAX_RETRIES - 1
    /\ FetchOver(t) =>
         /\ attempts[t] = Min(retries[t] + 1, MAX_RETRIES)
         /\ waits[t] = Min(retries[t], MAX_RETRIES - 1)
         /\ retries[t] < MAX_RETRIES <=> archive_data[t] # 0
         /\ retries[t] = MAX_RETRIES <=> outcome[t] = "fetch_error"
         /\ retries[t] <= MAX_RETRIES

\* C3: a fetch whose first k requests fail makes min(k + 1, 5) requests and
\* min(k, 4) waits, returns the data when k < 5 and raises when k = 5; and
\* every fetch ends.
C3_FetchRetries ==
  /\ []C3_Counts
  /\ \A t \in Tasks : (pc[t] = "attempt") ~> FetchOver(t)

\* C3 witness: the scheduled fetch failed four times and then got the data
C3_Witness ==
  /\ pc["periodic"] = "returned"
  /\ retries["periodic"] = MAX_RETRIES - 1
  /\ attempts["periodic"] = MAX_RETRIES
  /\ waits["periodic"] = MAX_RETRIES - 1
  /\ archive_data["periodic"] # 0

\* ------------------------------------------------------------------------
\* C4, C5: split_message (under SpecPaginate)
\* ------------------------------------------------------------------------
Paginated == call.fn = "split_message" /\ call.done

\* C4 (as stated): for every input text split_message returns at most
\* MAX_MESSAGES elements in total, the truncation notice counted among them.
C4_AtMostMaxMessages == Paginated => Len(call.ret) <= MAX_MESSAGES

\* the parts of the input are each at most MAX_MESSAGE_LENGTH long
UnitsWithinLimit == \A i \in 1..Len(call.arg) : call.arg[i] <= MAX_MESSAGE_LENGTH

\* C5: when every paragraph unit of the input is at most MAX_MESSAGE_LENGTH
\* long, every returned element, the truncation notice included, is at most
\* MAX_MESSAGE_LENGTH long; an element longer than the limit is always one
\* single paragraph unit that is itself longer than the limit.
C5_ChunkWithinLimit ==
  Paginated =>
    /\ UnitsWithinLimit => \A j \in 1..Len(call.ret) : call.ret[j].len <= MAX_MESSAGE_LENGTH
    /\ \A j \in 1..Len(call.ret) :
         call.ret[j].len > MAX_MESSAGE_LENGTH =>
           /\ ~call.ret[j].notice
           /\ Len(call.ret[j].units) = 1
           /\ call.arg[call.ret[j].units[1]] > MAX_MESSAGE_LENGTH

\* C5 witness: units within the limit were joined into an element of exactly
\* MAX_MESSAGE_LENGTH characters, and further elements follow it
C5_Witness ==
  /\ Paginated
  /\ UnitsWithinLimit
  /\ \E j \in 1..Len(call.ret) :
       call.ret[j].len = MAX_MESSAGE_LENGTH /\ Len(call.ret[j].units) > 1
  /\ Len(call.ret) = MAX_MESSAGES

\* ------------------------------------------------------------------------
\* C6: the scans (under SpecSearch)
\* ------------------------------------------------------------------------
ScanDone == call.fn = "scan" /\ call.done

\* the lower-cased line contains the (lower-case) keyword
KeywordHit(keyword, line) ==
  \E i \in 0..(Len(line) - Len(keyword)) :
     \A j \in 1..Len(keyword) : LowerChar(line[i + j]) = keyword[j]

\* the line matches the query
Hit(q, line) ==
  IF q.regex THEN regex_search_line(q.pat, line) ELSE KeywordHit(q.pat, line)

\* the numbers of the lines of a content that match the query
ExpectedLines(content, q) ==
  {i \in 1..Len(SplitLines(content)) : Hit(q, SplitLines(content)[i])}

\* the categories a query searches
SearchedCategories(q) == IF q.category = ALL THEN {CONTENT, DNS} ELSE {q.category}

UniqueKeys(d) == \A i, j \in 1..Len(d) : d[i].k = d[j].k => i = j

\* the result lists exactly the matching lines of one content
ExactLines(got, content, q) ==
  /\ Len(got) = Cardinality(ExpectedLines(content, q))
  /\ \A j \in 1..Len(got) :
       /\ got[j].num \in ExpectedLines(content, q)
       /\ got[j].text = Strip(SplitLines(content)[got[j].num])
  /\ \A j \in 1..(Len(got) - 1) : got[j].num < got[j + 1].num

\* C6: for every corpus, category selection and keyword or valid pattern, the
\* result has, for each searched category and each URL, exactly the matching
\* lines as (1-based number, trimmed text) in ascending order; a URL without
\* a matching line and a category without a matching URL have no entry.
C6_SearchExact ==
  ScanDone =>
    LET corpus == call.arg.corpus
        q == call.arg.query
        found == call.ret
    IN /\ UniqueKeys(found)
       /\ \A i \in 1..Len(found) :
            /\ found[i].k \in SearchedCategories(q)
            /\ found[i].v # <<>>
            /\ UniqueKeys(found[i].v)
            /\ \A h \in 1..Len(found[i].v) :
                 HasKey(DictGet(corpus, found[i].k, <<>>), found[i].v[h].k)
       /\ \A c \in SearchedCategories(q) :
            LET urls == DictGet(corpus, c, <<>>)
                hits == DictGet(found, c, <<>>)
            IN /\ HasKey(found, c) <=>
                    \E u \in 1..Len(urls) : ExpectedLines(urls[u].v, q) # {}
               /\ \A u \in 1..Len(urls) :
                    /\ HasKey(hits, urls[u].k) <=> ExpectedLines(urls[u].v, q) # {}
                    /\ HasKey(hits, urls[u].k) =>
                         ExactLines(DictGet(hits, urls[u].k, <<>>), urls[u].v, q)

\* C6 witness: a keyword search over all categories found lines in both
\* categories, one of them trimmed and in another case than the keyword,
\* and left out a URL none of whose lines match
C6_Witness ==
  /\ ScanDone
  /\ ~call.arg.query.regex
  /\ call.arg.query.category = ALL
  /\ Len(call.ret) = 2
  /\ Len(call.ret[1].v) = 1
  /\ call.ret[1].v[1].k = URL_V
  /\ \E j \in 1..Len(call.ret[1].v[1].v) :
       call.ret[1].v[1].v[j] = [num |-> 2, text |-> <<"B">>]

\* ------------------------------------------------------------------------
\* C7: a pattern that does not compile (under Spec)
\* ------------------------------------------------------------------------
\* a pattern of the modelled alphabet that re.compile rejects
Uncompilable(pattern) == \E i \in 1..Len(pattern) : pattern[i] = "(" \/ pattern[i] = "["

\* the update being handled is a /regex whose pattern does not compile
InvalidRegexRequest ==
  /\ update.command = "regex"
  /\ Len(update.args) >= 1
  /\ InValidCategories(ArgCategory(update.args))
  /\ Uncompilable(JoinArgs(ArgRest(update.args)))

RepliesOwed == IF update.message THEN 1 ELSE 0

\* C7 (amended): a /regex whose pattern does not compile is answered as an
\* invalid pattern before any line is scanned, no match result is produced
\* or delivered, and exactly one reply is sent when the update carries a
\* message; an update without a message gets no reply.
C7_InvalidPattern ==
  InvalidRegexRequest =>
    /\ result.kind = "invalid_pattern"
    /\ result.found = <<>>
    /\ result.messages = <<>>
    /\ ~view.scanned
    /\ sent + to_send = RepliesOwed
    /\ pc["handler"] = "returning" => sent = RepliesOwed

\* C7 (as stated): exactly one invalid-pattern reply is returned for every
\* such request.
C7_ExactlyOneReply ==
  InvalidRegexRequest =>
    /\ result.kind = "invalid_pattern"
    /\ result.found = <<>>
    /\ ~view.scanned
    /\ pc["handler"] = "returning" => sent = 1

\* C7 witness: the one reply to an invalid pattern has been sent
C7_Witness ==
  /\ InvalidRegexRequest
  /\ update.message
  /\ pc["handler"] = "returning"
  /\ sent = 1

\* ------------------------------------------------------------------------
\* C8, C9: the two timestamps (under Spec)
\* ------------------------------------------------------------------------
\* the step in which the cycle of task t gets an archive that opens
PublishStep(t) ==
  /\ pc[t] = "attempt"
  /\ archive_data'[t] # 0
  /\ ~Bodies[archive_data'[t]].empty
  /\ Bodies[archive_data'[t]].opens

\* C8: once set, loadedAt is changed by no step; updatedAt is set to the
\* time of the publish by every successful refresh and changed by no other
\* step.
C8_Timestamps ==
  [][/\ initial_load_time # None => initial_load_time' = initial_load_time
     /\ \A t \in Tasks : PublishStep(t) => last_update_time' = now
     /\ (~\E t \in Tasks : PublishStep(t)) => last_update_time' = last_update_time]_vars

\* C8 witness: after a later successful refresh and a failed one, loadedAt
\* is older than updatedAt
C8_Witness ==
  /\ initial_load_time # None
  /\ last_update_time > initial_load_time
  /\ \E t \in Refreshers : pc[t] = "raised"

\* C9: loadedAt and updatedAt are both unset or both set, unset exactly when
\* no ingestion has succeeded, and loadedAt <= updatedAt when set.
C9_TimestampsTogether ==
  /\ initial_load_time = None <=> last_update_time = None
  /\ initial_load_time = None <=> ~ingested
  /\ initial_load_time # None => initial_load_time <= last_update_time

\* C9 witness: two ingestions at different times have succeeded
C9_Witness ==
  /\ ingested
  /\ initial_load_time # None
  /\ initial_load_time < last_update_time
  /\ pc["handler"] = "idle"
  /\ pc["periodic"] = "sleep"

ReplaceStep(t) ==
  /\ pc[t] = "attempt"
  /\ archive_data'[t] # 0
  /\ ~AllBodies[archive_data'[t]].empty
  /\ AllBodies[archive_data'[t]].opens

\* the (category, URL) pairs of a corpus
Entries(d) ==
  UNION {{<<d[i].k, d[i].v[j].k>> : j \in 1..Len(d[i].v)} : i \in 1..Len(d)}

\* C11: after every successful refresh cycle the corpus of the store is
\* exactly the mapping parsed from the archive of that cycle, and no
\* (category, URL) entry of the corpus before that the archive lacks is
\* left, also when the archive parses to an empty mapping.
C11_ReplaceNotMerge ==
  [][\A t \in Tasks :
       ReplaceStep(t) =>
         LET new == ParseMembers(<<>>, AllBodies[archive_data'[t]].members)
         IN /\ pc'[t] = "returned"
            /\ url_contents' = new
            /\ \A e \in Entries(url_contents) :
                 e \notin Entries(new) => e \notin Entries(url_contents')
            /\ new = <<>> => url_contents' = <<>>]_vars

\* C11 witness: the scheduled cycle got the archive that parses to an empty
\* mapping while the store held entries, and the store is empty
C11_Witness ==
  /\ pc["periodic"] = "returned"
  /\ archive_data["periodic"] = Len(AllBodies)
  /\ Entries(cycle_start["periodic"].store[1]) # {}
  /\ url_contents = <<>>

\* ------------------------------------------------------------------------
\* C12: the first ingestion is mandatory (under Spec)
\* ------------------------------------------------------------------------
\* what holds once the first load has failed, and whenever the periodic task
\* exists or updates are handled
C12_Startup ==
  /\ phase = "exited" =>
       /\ pc = [t \in Tasks |-> IF t = "main" THEN "exited" ELSE "unborn"]
       /\ outcome["main"] \in {"fetch_error", "empty", "parse_error"}
       /\ ~ingested
       /\ initial_load_time = None
       /\ url_contents = <<>>
       /\ update = NoUpdate
       /\ sent = 0
  /\ (pc["periodic"] # "unborn" \/ pc["handler"] # "unborn" \/ update # NoUpdate) =>
       /\ phase = "running"
       /\ ingested
       /\ initial_load_time # None

\* C12: when the first ingestion fails the process exits: the cycle is not
\* begun again, the periodic task is never created and no update is
\* handled; and whenever the periodic task exists or an update is handled, a
\* first ingestion has succeeded and loadedAt is set.
C12_StartupFatal ==
  /\ []C12_Startup
  /\ [][/\ pc["main"] = "raised" => (phase' = "exited" /\ pc'["main"] = "exited")
        /\ pc'["main"] = "attempt" => pc["main"] \in {"attempt", "retry_sleep"}
        /\ phase = "exited" => phase' = "exited"]_vars

\* C12 witness: the first load got bytes that do not open as an archive and
\* the process has exited
C12_Witness ==
  /\ phase = "exited"
  /\ outcome["main"] = "parse_error"
  /\ pc["periodic"] = "unborn"

C14_OnlyRealCategories ==
  phase = "running" => Keys(url_contents) \subseteq {CONTENT, DNS}

\* ------------------------------------------------------------------------
\* C15: the categories a query searches (under SpecSearch)
\* ------------------------------------------------------------------------
\* C15: a query for "all" searches content and dns and nothing else and
\* lists content before dns; a query for one category has entries of that
\* category only; every entry of a URL holds the matching lines of that
\* URL's content in that category, so a URL of both categories has one
\* entry in each.
C15_AllExpands ==
  ScanDone =>
    LET corpus == call.arg.corpus
        q == call.arg.query
        found == call.ret
        real == {CONTENT, DNS}
    IN /\ q.category = ALL =>
            /\ \A i \in 1..Len(found) : found[i].k \in real
            /\ \A i, j \in 1..Len(found) :
                 i < j => (found[i].k = CONTENT /\ found[j].k = DNS)
            /\ \A c \in real :
                 \A u \in 1..Len(DictGet(corpus, c, <<>>)) :
                    LET e == DictGet(corpus, c, <<>>)[u]
                    IN ExpectedLines(e.v, q) # {} =>
                         /\ HasKey(found, c)
                         /\ HasKey(DictGet(found, c, <<>>), e.k)
       /\ q.category # ALL => \A i \in 1..Len(found) : found[i].k = q.category
       /\ \A i \in 1..Len(found) :
            \A h \in 1..Len(found[i].v) :
               LET own == DictGet(DictGet(corpus, found[i].k, <<>>), found[i].v[h].k, <<>>)
               IN /\ ExpectedLines(own, q) # {}
                  /\ ExactLines(found[i].v[h].v, own, q)

\* C15 witness: a query for "all" over a corpus whose keys are another
\* category, dns, content found the same URL in content and in dns, each
\* with the lines of its own content, content listed first
C15_Witness ==
  /\ ScanDone
  /\ call.arg.query.category = ALL
  /\ Len(call.arg.corpus) = 3
  /\ call.arg.corpus[1].k = OTHER_TAG
  /\ Len(call.ret) = 2
  /\ call.ret[1].k = CONTENT
  /\ call.ret[2].k = DNS
  /\ HasKey(call.ret[1].v, URL_U)
  /\ HasKey(call.ret[2].v, URL_U)
  /\ DictGet(call.ret[1].v, URL_U, <<>>) # DictGet(call.ret[2].v, URL_U, <<>>)

\* ------------------------------------------------------------------------
\* C16: split_message is greedy (under SpecPaginate)
\* ------------------------------------------------------------------------
IsText(m) == ~m.notice

\* the chunks of a return value, the notice left out
TextChunks(ret) == SelectSeq(ret, IsText)

FirstUnit(c) == c.units[1]
LastUnit(c) == c.units[Len(c.units)]

\* the units of a chunk follow each other in the input, are joined by blank
\* lines, and were joined only while the chunk stayed within the limit
JoinedWhileFits(lens, c) ==
  /\ c.units # <<>>
  /\ \A k \in 1..(Len(c.units) - 1) : c.units[k + 1] = c.units[k] + 1
  /\ c.len = CurLen(lens, c.units)
  /\ Len(c.units) > 1 => c.len <= MAX_MESSAGE_LENGTH

\* the chunk was closed because the unit after it did not fit
ClosedWhenFull(lens, c) ==
  /\ LastUnit(c) < Len(lens)
  /\ c.len + 2 + lens[LastUnit(c) + 1] > MAX_MESSAGE_LENGTH

\* C16 (as stated): every unit is in a chunk, in input order; the next unit
\* is joined to the current chunk exactly when the result stays within
\* MAX_MESSAGE_LENGTH, and otherwise starts the next chunk.
C16_Greedy ==
  Paginated =>
    LET lens == call.arg
        chunks == TextChunks(call.ret)
    IN /\ chunks # <<>>
       /\ FirstUnit(chunks[1]) = 1
       /\ LastUnit(chunks[Len(chunks)]) = Len(lens)
       /\ \A j \in 1..Len(chunks) : JoinedWhileFits(lens, chunks[j])
       /\ \A j \in 1..(Len(chunks) - 1) :
            /\ FirstUnit(chunks[j + 1]) = LastUnit(chunks[j]) + 1
            /\ ClosedWhenFull(lens, chunks[j])

\* the units from a to b are empty and in no chunk
DroppedEmpty(lens, a, b) == \A i \in a..b : lens[i] = 0

\* C16 (amended): split_message is greedy over the units in input order: the
\* next unit is joined to the current chunk exactly when the result stays
\* within MAX_MESSAGE_LENGTH, and otherwise closes it and starts the next
\* chunk; except that an empty unit never starts a chunk (empty units at the
\* start of the text or after a closed chunk are dropped), and that once
\* the third chunk is closed the remaining units are dropped and the notice
\* is appended.
C16_GreedyUpToTruncation ==
  Paginated =>
    LET lens == call.arg
        ret == call.ret
        chunks == TextChunks(ret)
        n == Len(chunks)
        truncated == \E j \in 1..Len(ret) : ret[j].notice
    IN /\ \A j \in 1..n :
            /\ JoinedWhileFits(lens, chunks[j])
            /\ lens[FirstUnit(chunks[j])] > 0
       /\ n = 0 => (~truncated /\ DroppedEmpty(lens, 1, Len(lens)))
       /\ n > 0 => DroppedEmpty(lens, 1, FirstUnit(chunks[1]) - 1)
       /\ \A j \in 1..(n - 1) :
            /\ ClosedWhenFull(lens, chunks[j])
            /\ LastUnit(chunks[j]) < FirstUnit(chunks[j + 1])
            /\ DroppedEmpty(lens, LastUnit(chunks[j]) + 1, FirstUnit(chunks[j + 1]) - 1)
       /\ (n > 0 /\ ~truncated) =>
            /\ n <= MAX_MESSAGES
            /\ DroppedEmpty(lens, LastUnit(chunks[n]) + 1, Len(lens))
            /\ LastUnit(chunks[n]) < Len(lens) => ClosedWhenFull(lens, chunks[n])
       /\ truncated =>
            /\ n = MAX_MESSAGES
            /\ ret = Append(chunks, NoticeMessage)
            /\ ClosedWhenFull(lens, chunks[n])

\* C16 witness: three paragraphs of 1500 characters gave two chunks, the
\* first of paragraphs 1 and 2, the second of paragraph 3
C16_Witness ==
  /\ Paginated
  /\ call.arg = <<1500, 1500, 1500>>
  /\ Len(call.ret) = 2
  /\ call.ret[1].units = <<1, 2>>
  /\ call.ret[1].len = 3002
  /\ call.ret[2].units = <<3>>

\* ------------------------------------------------------------------------
\* C17, C18, C19: the member loop (under SpecParse)
\* ------------------------------------------------------------------------
Parsed == call.fn = "parse" /\ call.done
ParsedScanned == call.fn = "parsed_scan" /\ call.done

\* a regular file with at least three path segments
Qualifies(member) == member.isfile /\ Len(Split(member.name, "/")) >= 3

\* the third path segment
CategoryOf(member) == Split(member.name, "/")[3]

\* the text of the file and its lines
TextOf(member) == Decode(member.data)
LinesOf(member) == SplitLines(TextOf(member))

\* the token the pattern ^!\s*url:\s*(\S+) captures in a line, ignoring
\* case; <<>> when the line does not match
StatedToken(line) ==
  IF line # <<>> /\ line[1] = "!"
  THEN LET k == CHOOSE k \in 2..(Len(line) + 1) :
                  /\ \A i \in 2..(k - 1) : IsSpace(line[i])
                  /\ k = Len(line) + 1 \/ ~IsSpace(line[k])
       IN IF k + 3 <= Len(line)
             /\ LowerChar(line[k]) = "u" /\ LowerChar(line[k + 1]) = "r"
             /\ LowerChar(line[k + 2]) = "l" /\ line[k + 3] = ":"
          THEN LET t == CHOOSE t \in (k + 4)..(Len(line) + 1) :
                          /\ \A i \in (k + 4)..(t - 1) : IsSpace(line[i])
                          /\ t = Len(line) + 1 \/ ~IsSpace(line[t])
                   e == CHOOSE e \in t..(Len(line) + 1) :
                          /\ \A i \in t..(e - 1) : ~IsSpace(line[i])
                          /\ e = Len(line) + 1 \/ IsSpace(line[e])
               IN SubSeq(line, t, e - 1)
          ELSE <<>>
  ELSE <<>>

\* the token the pattern ^! url:\s*(\S+) captures in the line trimmed of
\* surrounding whitespace: exactly one space between "!" and "url:"
TrimmedToken(line) ==
  LET trimmed == Strip(line)
  IN IF Len(trimmed) >= 3 /\ trimmed[2] = " " /\ ~IsSpace(trimmed[3])
     THEN StatedToken(trimmed)
     ELSE <<>>

\* the file is ingested, as the claim states it and as amended
StatedIngested(member) ==
  /\ Qualifies(member)
  /\ LinesOf(member) # <<>>
  /\ StatedToken(LinesOf(member)[1]) # <<>>

Ingested(member) ==
  /\ Qualifies(member)
  /\ LinesOf(member) # <<>>
  /\ TrimmedToken(LinesOf(member)[1]) # <<>>

\* the (category, URL) pair an ingested file declares
PairOf(member) == <<CategoryOf(member), TrimmedToken(LinesOf(member)[1])>>

TextAfterFirstLine(text) ==
  LET i == FirstIndex(text, "\n")
      rest == SubSeq(text, i + 1, Len(text))
  IN IF i = 0 THEN <<>>
     ELSE IF rest # <<>> /\ rest[Len(rest)] = "\n"
          THEN SubSeq(rest, 1, Len(rest) - 1)
          ELSE rest

\* member i is the last file of the archive that declares its pair
LastOfPair(members, i) ==
  /\ Ingested(members[i])
  /\ \A j \in (i + 1)..Len(members) :
       Ingested(members[j]) => PairOf(members[j]) # PairOf(members[i])

\* the content stored for a pair
Stored(corpus, pair) == DictGet(DictGet(corpus, pair[1], <<>>), pair[2], <<>>)

\* C18: the entry of an ingested file is stored under the URL token of its
\* first line and its content is the lines after the first joined by line
\* breaks, the directive line absent; a file that is its directive line
\* alone has an entry with empty content, and no search finds a line of an
\* entry with empty content.
C18_ContentAfterDirective ==
  /\ Parsed =>
       \A i \in 1..Len(call.arg) :
          LastOfPair(call.arg, i) =>
            LET pair == PairOf(call.arg[i])
            IN /\ HasKey(call.ret, pair[1])
               /\ HasKey(DictGet(call.ret, pair[1], <<>>), pair[2])
               /\ Stored(call.ret, pair) = TextAfterFirstLine(TextOf(call.arg[i]))
               /\ Stored(call.ret, pair) = JoinLines(Tail(LinesOf(call.arg[i])))
               /\ Len(LinesOf(call.arg[i])) = 1 => Stored(call.ret, pair) = <<>>
  /\ ParsedScanned =>
       \A pair \in Entries(call.arg.corpus) :
          Stored(call.arg.corpus, pair) = <<>> =>
            ~HasKey(DictGet(call.ret, pair[1], <<>>), pair[2])

\* C18 witness: the file with first line "! url: u" and body a, b, c gave
\* the content "a\nb\nc", the file that is its directive alone gave an empty
\* content, and a search found a line of the first and none of the second
C18_Witness ==
  /\ ParsedScanned
  /\ Len(call.arg.members) = 2
  /\ Stored(call.arg.corpus, <<CONTENT, URL_U>>) = <<"a", "\n", "b", "\n", "c">>
  /\ <<CONTENT, URL_V>> \in Entries(call.arg.corpus)
  /\ Stored(call.arg.corpus, <<CONTENT, URL_V>>) = <<>>
  /\ call.arg.query.category = ALL
  /\ Entries(call.ret) = {<<CONTENT, URL_U>>}

\* C19: when several files of an archive declare the same (category, URL)
\* pair the corpus has one entry for the pair, with the content of the last
\* of them in archive order, and the entries of other pairs are those of
\* their own files.
C19_LastFileWins ==
  Parsed =>
    /\ UniqueKeys(call.ret)
    /\ \A c \in 1..Len(call.ret) : UniqueKeys(call.ret[c].v)
    /\ \A pair \in Entries(call.ret) :
         LET declaring == {i \in 1..Len(call.arg) :
                             Ingested(call.arg[i]) /\ PairOf(call.arg[i]) = pair}
             last == CHOOSE i \in declaring : \A j \in declaring : j <= i
         IN /\ declaring # {}
            /\ Stored(call.ret, pair) = TextAfterFirstLine(TextOf(call.arg[last]))

\* C19 witness: two files declared the same pair with different contents
\* and the entry has the content of the second
C19_Witness ==
  /\ Parsed
  /\ Len(call.arg) = 2
  /\ Ingested(call.arg[1])
  /\ Ingested(call.arg[2])
  /\ PairOf(call.arg[1]) = PairOf(call.arg[2])
  /\ TextAfterFirstLine(TextOf(call.arg[1])) # TextAfterFirstLine(TextOf(call.arg[2]))
  /\ Entries(call.ret) = {PairOf(call.arg[2])}
  /\ Stored(call.ret, PairOf(call.arg[2])) = TextAfterFirstLine(TextOf(call.arg[2]))

\* ------------------------------------------------------------------------
\* C20: overlapping manual and scheduled cycles (under Spec)
\* ------------------------------------------------------------------------
\* the corpus parsed from the archive task t has downloaded
CorpusOf(t) == ParseMembers(<<>>, Bodies[archive_data[t]].members)

\* both cycles have published and neither caller has gone on yet
BothPublished == pc["handler"] = "returned" /\ pc["periodic"] = "returned"

\* the store after two overlapping cycles
C20_AfterBoth ==
  BothPublished =>
    /\ url_contents \in {CorpusOf("handler"), CorpusOf("periodic")}
    /\ initial_load_time = cycle_start["handler"].store[2]
    /\ initial_load_time = cycle_start["periodic"].store[2]
    /\ initial_load_time # None
    /\ last_update_time >= initial_load_time

\* C20: while a manual and a scheduled cycle overlap, a publish of either
\* binds the store to the whole corpus of that cycle's archive, sets
\* updatedAt to the time of that publish and leaves loadedAt and the other
\* cycle alone, and no other step changes the store; so after both the
\* store holds the corpus of the cycle that published last.
C20_OverlappingCycles ==
  /\ []C20_AfterBoth
  /\ [][/\ \A t \in Refreshers :
             (PublishStep(t) /\ \E u \in Refreshers \ {t} : InCycle(u)) =>
               /\ url_contents' = ParseMembers(<<>>, Bodies[archive_data'[t]].members)
               /\ last_update_time' = now
               /\ initial_load_time' = initial_load_time
               /\ \A u \in Refreshers \ {t} :
                    /\ pc'[u] = pc[u]
                    /\ archive_data'[u] = archive_data[u]
        /\ ((\A t \in Refreshers : InCycle(t)) /\ ~\E t \in Refreshers : PublishStep(t)) =>
             Store' = Store]_vars

\* C20 witness: the manual cycle began before the scheduled one published
\* and published after it; the archives differ and the store holds the
\* corpus of the manual cycle
C20_Witness ==
  /\ BothPublished
  /\ cycle_start["handler"].disturbed
  /\ cycle_start["periodic"].disturbed
  /\ CorpusOf("handler") # CorpusOf("periodic")
  /\ url_contents = CorpusOf("handler")
  /\ last_update_time = now
  /\ initial_load_time < last_update_time

\* ------------------------------------------------------------------------
\* C21: who can start a refresh cycle (under Spec)
\* ------------------------------------------------------------------------
\* the id is in the admin list
InAdminList(user_id) == user_id \in {ADMIN_IDS[i] : i \in 1..Len(ADMIN_IDS)}

\* the update being handled is a /fetchnow of a caller without a user id or
\* outside the admin list
DeniedRequest(u) == u.command = "fetchnow" /\ (u.user = 0 \/ ~InAdminList(u.user))

\* the handler takes a step of the handling of update u
HandlerStep(u) ==
  \/ update = NoUpdate /\ update' = u
  \/ update = u /\ (pc'["handler"] # pc["handler"] \/ sent' # sent \/ update' # u)

\* task t begins a cycle
CycleBegins(t) == ~InCycle(t) /\ pc'[t] = "attempt"

\* no cycle of the handler is in progress while a denied request is handled
C21_NoFetchWhileDenied ==
  DeniedRequest(update) =>
    /\ ~InCycle("handler")
    /\ archive_data["handler"] = 0
    /\ attempts["handler"] = 0
    /\ result.kind = "denied"

\* C21: a /fetchnow of a caller who is not in the admin list, or has no user
\* id, starts no fetch, and no step of its handling changes the corpus,
\* loadedAt or updatedAt; after start-up a cycle begins only in the timer's
\* task when its sleep is over or in the handler for a /fetchnow of an admin.
C21_OnlyAdminOrTimer ==
  /\ []C21_NoFetchWhileDenied
  /\ [][/\ \A u \in {update, update'} :
             (DeniedRequest(u) /\ HandlerStep(u)) =>
               /\ Store' = Store
               /\ attempts' = attempts
               /\ \A t \in Tasks : ~CycleBegins(t)
        /\ \A t \in Tasks :
             (phase = "running" /\ CycleBegins(t)) =>
               \/ /\ t = "periodic"
                  /\ pc["periodic"] = "sleep"
                  /\ wake["periodic"] <= now
               \/ /\ t = "handler"
                  /\ update = NoUpdate
                  /\ update'.command = "fetchnow"
                  /\ update'.user # 0
                  /\ InAdminList(update'.user)]_vars

\* C21 witness: a user outside the admin list asked for a refresh after the
\* first load, the request was denied and answered, and the store is as the
\* first load left it
C21_Witness ==
  /\ DeniedRequest(update)
  /\ update.user # 0
  /\ pc["handler"] = "returning"
  /\ sent = 1
  /\ ingested
  /\ last_update_time = initial_load_time
  /\ \A t \in Tasks : ~InCycle(t)

\* ------------------------------------------------------------------------
\* C22: the reading handlers leave the store alone (under SpecReaders)
\* ------------------------------------------------------------------------
\* the update being handled in either state of the step is a search, a regex
\* search or a stats request
ReaderStep ==
  \E u \in {update, update'} : u.command \in {"search", "regex", "info"}

\* the ways a search, a regex search or a stats request can end
ReaderOutcomes ==
  {"usage", "invalid_category", "empty_keyword", "empty_pattern", "invalid_pattern",
   "results", "no_results", "info"}

\* C22: no step of the handling of a substring search, a regex search or a
\* stats request changes the corpus, loadedAt or updatedAt, whether the
\* request gives results, finds nothing or is rejected for its category,
\* for an empty keyword or pattern or for a pattern that does not compile.
C22_ReadersLeaveStore ==
  /\ [](update.command \in {"search", "regex", "info"} => result.kind \in ReaderOutcomes)
  /\ [][ReaderStep => Store' = Store]_vars

\* C22 witnesses: each way a request can end has been reached over a store
\* that holds the first load; a scan of a corpus without the category it
\* asked for is among them
C22_Witness ==
  /\ update.command \in {"search", "regex"}
  /\ result.kind = "no_results"
  /\ ingested
  /\ url_contents # <<>>
  /\ ~HasKey(url_contents, ArgCategory(update.args))
  /\ ArgCategory(update.args) = DNS
  /\ pc["handler"] = "returning"

\* ------------------------------------------------------------------------
\* C23: the next refresh time of /info and the timer (under Spec)
\* ------------------------------------------------------------------------
\* the time at which the sleep of periodic_update ends
TimerDue == wake["periodic"]

\* C23 (as stated): whenever the running bot's timer is asleep, the next
\* refresh time that /info would report (updatedAt + 3600 s) is the time at
\* which the timer starts its next cycle.
C23_NextRefreshIsTimer ==
  (phase = "running" /\ pc["periodic"] = "sleep") =>
    xinfo_stats(url_contents, initial_load_time, last_update_time).nextRefresh = TimerDue

\* ------------------------------------------------------------------------
\* C24: split_message drops nothing silently (under SpecPaginate)
\* ------------------------------------------------------------------------
\* the units of a list of chunks, one chunk after the other
RECURSIVE ChunkUnits(_)
ChunkUnits(chunks) ==
  IF chunks = <<>> THEN <<>> ELSE Head(chunks).units \o ChunkUnits(Tail(chunks))

\* those of the units that are not empty
RECURSIVE NonEmpty(_, _)
NonEmpty(lens, units) ==
  IF units = <<>> THEN <<>>
  ELSE (IF lens[Head(units)] > 0 THEN <<Head(units)>> ELSE <<>>) \o NonEmpty(lens, Tail(units))

\* the units of the input, in input order
InputUnits(lens) == [i \in 1..Len(lens) |-> i]

IsPrefix(a, b) == Len(a) <= Len(b) /\ a = SubSeq(b, 1, Len(a))

HasNotice(ret) == \E i \in 1..Len(ret) : ret[i].notice

NoticeIsLast(ret) ==
  /\ ret # <<>>
  /\ ret[Len(ret)].notice
  /\ \A i \in 1..(Len(ret) - 1) : ~ret[i].notice

\* C24: the non-empty units in the chunks are, in order and once each, a
\* prefix of the non-empty units of the input; without a truncation notice
\* they are all of them; and when one is missing the notice is the last
\* element of the output.
C24_NoSilentDrop ==
  Paginated =>
    LET got == NonEmpty(call.arg, ChunkUnits(TextChunks(call.ret)))
        all == NonEmpty(call.arg, InputUnits(call.arg))
    IN /\ IsPrefix(got, all)
       /\ ~HasNotice(call.ret) => got = all
       /\ got # all => NoticeIsLast(call.ret)
       /\ HasNotice(call.ret) => NoticeIsLast(call.ret)

\* C24 witness: the fourth unit did not fit the third chunk; the output is
\* three chunks of one unit each and the notice, and the fourth unit is in
\* none of them
C24_Witness ==
  /\ Paginated
  /\ Len(call.arg) = 4
  /\ \A i \in 1..4 : call.arg[i] = MAX_MESSAGE_LENGTH - 1
  /\ Len(call.ret) = MAX_MESSAGES + 1
  /\ NoticeIsLast(call.ret)
  /\ ChunkUnits(TextChunks(call.ret)) = <<1, 2, 3>>

====
